---- MODULE Spec2Model ----
(***************************************************************************)
(* Model of the CSS selector builder of js/practice/task/08-objects-tasks.js *)
(* The heap of CssSelectorBuilder instances is the function `selectors`     *)
(* (instance -> its this.selectors array); `count` is the number of         *)
(* instances constructed so far; `last` records the most recent call and    *)
(* its outcome (what it returned or threw); `log` keeps, per instance, the  *)
(* calls that returned normally, with the arguments they were given.        *)
(* `js` is the state of a caller of Rectangle, getJSON and fromJSON: the    *)
(* object it started from, the JSON text, the object read back, the area.   *)
(***************************************************************************)
EXTENDS Integers, Sequences, FiniteSets, TLC

VARIABLES selectors, count, last, log, js

vars == <<selectors, count, last, log, js>>

\* ---------------------------------------------------------------- bounds
\* instances constructed; parts in a lone instance's array; parts in all
\* arrays together once there are several instances; characters in a part
MaxBuilders == 3
MaxChain == 6
MaxParts == 3
MaxText == 9
\* the largest width and height of a rectangle
MaxSide == 20

Builders == 1..MaxBuilders
Values == {"a"}
Combinators == {"+"}

\* ------------------------------------------------------- CssSelectorBuilder
Undefined == "undefined"
NaN == -1

OrderViolation ==
  "Selector parts should be arranged in the following order: element, id, class, attribute, pseudo-class, pseudo-element"
DuplicateSelector ==
  "Element, id and pseudo-element should not occur more then one time inside the selector"
NoError == "none"

\* a part without a type ranked after every kind
order_combinedLast(type) ==
  CASE type = "element" -> 0
    [] type = "id" -> 1
    [] type = "class" -> 2
    [] type = "attr" -> 3
    [] type = "pseudoClass" -> 4
    [] type = "pseudoElement" -> 5
    [] OTHER -> 6

\* this.order[type]; a key the table lacks (the type of a combined part)
\* reads as undefined, which compares as NaN
order(type) ==
  CASE type = "element" -> 0
    [] type = "id" -> 1
    [] type = "class" -> 2
    [] type = "attr" -> 3
    [] type = "pseudoClass" -> 4
    [] type = "pseudoElement" -> 5
    [] OTHER -> NaN

\* the > of JavaScript on numbers: false as soon as one side is NaN
GreaterThan(x, y) == x # NaN /\ y # NaN /\ x > y

\* one instance handed out by every construction after the first
constructor_shared(heap, n) ==
  [heap |-> IF n = 0 THEN [heap EXCEPT ![1] = <<>>] ELSE heap, this |-> 1]

\* new CssSelectorBuilder() when n instances exist: instance n + 1, with an
\* array of its own
constructor(heap, n) ==
  [heap |-> [heap EXCEPT ![n + 1] = <<>>], this |-> n + 1]

\* looks for the type among the rendered values
checkCount_byValue(sels, type) ==
  \E i \in 1..Len(sels) : sels[i].value = type

\* looks at the last part only
checkCount_lastOnly(sels, type) ==
  Len(sels) # 0 /\ sels[Len(sels)].type = type

\* TRUE iff checkCount(type) throws
checkCount(sels, type) == \E i \in 1..Len(sels) : sels[i].type = type

\* >= in place of >
checkOrder_notLess(sels, type) ==
  /\ Len(sels) # 0
  /\ LET prevSelector == sels[Len(sels)]
     IN \/ GreaterThan(order(prevSelector.type), order(type))
        \/ order(prevSelector.type) = order(type)

\* TRUE iff checkOrder(type) throws
checkOrder(sels, type) ==
  /\ Len(sels) # 0
  /\ LET prevSelector == sels[Len(sels)]
     IN GreaterThan(order(prevSelector.type), order(type))

\* the outcome of a call on instance `this`: the heap it leaves, the message
\* of the Error it threw (NoError when it returned), the instance it
\* returned (0 when it returned none) and the string it returned ("" when it
\* returned none)
Throw(heap, this, message) ==
  [heap |-> heap, this |-> this, error |-> message, ret |-> 0, text |-> ""]

\* unshift in place of push
push_unshift(heap, this, selector) ==
  [heap EXCEPT ![this] = <<selector>> \o @]

push(heap, this, selector) == [heap EXCEPT ![this] = Append(@, selector)]

\* no return statement: the call returns undefined
ReturnThis_nothing(heap, this) ==
  [heap |-> heap, this |-> this, error |-> NoError, ret |-> 0, text |-> ""]

ReturnThis(heap, this) ==
  [heap |-> heap, this |-> this, error |-> NoError, ret |-> this,
   text |-> ""]

\* pushes before it checks
element_pushFirst(heap, this, value) ==
  LET type == "element"
      pushed == push(heap, this, [type |-> type, value |-> value])
  IN IF checkOrder(heap[this], type) THEN Throw(pushed, this, OrderViolation)
     ELSE IF checkCount(heap[this], type)
          THEN Throw(pushed, this, DuplicateSelector)
     ELSE ReturnThis(pushed, this)

element(heap, this, value) ==
  LET type == "element" IN
  IF checkOrder(heap[this], type) THEN Throw(heap, this, OrderViolation)
  ELSE IF checkCount(heap[this], type)
       THEN Throw(heap, this, DuplicateSelector)
  ELSE ReturnThis(push(heap, this, [type |-> type, value |-> value]), this)

\* checkCount before checkOrder
id_countFirst(heap, this, value) ==
  LET type == "id" IN
  IF checkCount(heap[this], type) THEN Throw(heap, this, DuplicateSelector)
  ELSE IF checkOrder(heap[this], type)
       THEN Throw(heap, this, OrderViolation)
  ELSE ReturnThis(
         push(heap, this, [type |-> type, value |-> "#" \o value]), this)

id(heap, this, value) ==
  LET type == "id" IN
  IF checkOrder(heap[this], type) THEN Throw(heap, this, OrderViolation)
  ELSE IF checkCount(heap[this], type)
       THEN Throw(heap, this, DuplicateSelector)
  ELSE ReturnThis(
         push(heap, this, [type |-> type, value |-> "#" \o value]), this)

\* checkCount applied to class as well
class_limited(heap, this, value) ==
  LET type == "class" IN
  IF checkOrder(heap[this], type) THEN Throw(heap, this, OrderViolation)
  ELSE IF checkCount(heap[this], type)
       THEN Throw(heap, this, DuplicateSelector)
  ELSE ReturnThis(
         push(heap, this, [type |-> type, value |-> "." \o value]), this)

class(heap, this, value) ==
  LET type == "class" IN
  IF checkOrder(heap[this], type) THEN Throw(heap, this, OrderViolation)
  ELSE ReturnThis(
         push(heap, this, [type |-> type, value |-> "." \o value]), this)

\* the closing bracket left out
attr_unclosed(heap, this, value) ==
  LET type == "attr" IN
  IF checkOrder(heap[this], type) THEN Throw(heap, this, OrderViolation)
  ELSE ReturnThis(
         push(heap, this, [type |-> type, value |-> "[" \o value]), this)

attr(heap, this, value) ==
  LET type == "attr" IN
  IF checkOrder(heap[this], type) THEN Throw(heap, this, OrderViolation)
  ELSE ReturnThis(
         push(heap, this, [type |-> type, value |-> "[" \o value \o "]"]),
         this)

pseudoClass(heap, this, value) ==
  LET type == "pseudoClass" IN
  IF checkOrder(heap[this], type) THEN Throw(heap, this, OrderViolation)
  ELSE ReturnThis(
         push(heap, this, [type |-> type, value |-> ":" \o value]), this)

pseudoElement(heap, this, value) ==
  LET type == "pseudoElement" IN
  IF checkOrder(heap[this], type) THEN Throw(heap, this, OrderViolation)
  ELSE IF checkCount(heap[this], type)
       THEN Throw(heap, this, DuplicateSelector)
  ELSE ReturnThis(
         push(heap, this, [type |-> type, value |-> "::" \o value]), this)

\* selectors.map(selector => selector.value).join('')
RECURSIVE join(_)
join(sels) ==
  IF sels = <<>> THEN "" ELSE sels[1].value \o join(Tail(sels))

\* renders by taking the parts out of the array
stringify_draining(heap, this) ==
  [heap |-> [heap EXCEPT ![this] = <<>>], this |-> this, error |-> NoError,
   ret |-> 0, text |-> join(heap[this])]

stringify(heap, this) ==
  [heap |-> heap, this |-> this, error |-> NoError, ret |-> 0,
   text |-> join(heap[this])]

\* no spaces around the combinator
combine_unspaced(heap, this, selector1, combinator, selector2) ==
  LET s1 == stringify(heap, selector1)
      s2 == stringify(s1.heap, selector2)
  IN ReturnThis(
       push(s2.heap, this,
            [type |-> Undefined,
             value |-> s1.text \o combinator \o s2.text]),
       this)

\* the two operands rendered in each other's place
combine_swapped(heap, this, selector1, combinator, selector2) ==
  LET s1 == stringify(heap, selector1)
      s2 == stringify(s1.heap, selector2)
  IN ReturnThis(
       push(s2.heap, this,
            [type |-> Undefined,
             value |-> s2.text \o " " \o combinator \o " " \o s1.text]),
       this)

\* checkCount applied to the combined part
combine_checked(heap, this, selector1, combinator, selector2) ==
  LET s1 == stringify(heap, selector1)
      s2 == stringify(s1.heap, selector2)
  IN IF checkCount(heap[this], Undefined)
     THEN Throw(heap, this, DuplicateSelector)
     ELSE ReturnThis(
            push(s2.heap, this,
                 [type |-> Undefined,
                  value |-> s1.text \o " " \o combinator \o " "
                              \o s2.text]),
            this)

\* the template literal renders selector1, then selector2, before the push;
\* the pushed part has no type property
combine(heap, this, selector1, combinator, selector2) ==
  LET s1 == stringify(heap, selector1)
      s2 == stringify(s1.heap, selector2)
  IN ReturnThis(
       push(s2.heap, this,
            [type |-> Undefined,
             value |-> s1.text \o " " \o combinator \o " " \o s2.text]),
       this)

\* ------------------------------------------------------ cssSelectorBuilder
\* each entry point runs the method on new CssSelectorBuilder(); n is the
\* number of instances that exist at the call
cssSelectorBuilder_element(heap, n, value) ==
  LET new == constructor(heap, n) IN element(new.heap, new.this, value)

cssSelectorBuilder_id(heap, n, value) ==
  LET new == constructor(heap, n) IN id(new.heap, new.this, value)

cssSelectorBuilder_class(heap, n, value) ==
  LET new == constructor(heap, n) IN class(new.heap, new.this, value)

cssSelectorBuilder_attr(heap, n, value) ==
  LET new == constructor(heap, n) IN attr(new.heap, new.this, value)

cssSelectorBuilder_pseudoClass(heap, n, value) ==
  LET new == constructor(heap, n) IN pseudoClass(new.heap, new.this, value)

cssSelectorBuilder_pseudoElement(heap, n, value) ==
  LET new == constructor(heap, n)
  IN pseudoElement(new.heap, new.this, value)

cssSelectorBuilder_combine(heap, n, selector1, combinator, selector2) ==
  LET new == constructor(heap, n)
  IN combine(new.heap, new.this, selector1, combinator, selector2)

\* ------------------------------------------------- Rectangle and JSON
\* An object is its prototype and its own properties in creation order, each
\* with its descriptor; `ref` tells objects apart. A JSON text is the
\* sequence of its tokens: punctuation, quoted keys, decimal digits.
ObjectPrototype == "Object.prototype"
RectanglePrototype == "Rectangle.prototype"
Keys == {"width", "height"}

\* a data property as an assignment or JSON.parse creates it
Property(key, value) ==
  [key |-> key, value |-> value, writable |-> TRUE, enumerable |-> TRUE,
   configurable |-> TRUE]

HasOwn(obj, key) == \E i \in 1..Len(obj.own) : obj.own[i].key = key

\* obj[key] of an own property
Get(obj, key) ==
  obj.own[CHOOSE i \in 1..Len(obj.own) : obj.own[i].key = key].value

\* new Rectangle(width, height): width is assigned first
Rectangle(ref, width, height) ==
  [ref |-> ref, proto |-> RectanglePrototype,
   own |-> <<Property("width", width), Property("height", height)>>]

\* Rectangle.prototype.getArea, with `this` the receiver
getArea(this) == Get(this, "height") * Get(this, "width")

Digit(d) ==
  CASE d = 0 -> "0" [] d = 1 -> "1" [] d = 2 -> "2" [] d = 3 -> "3"
    [] d = 4 -> "4" [] d = 5 -> "5" [] d = 6 -> "6" [] d = 7 -> "7"
    [] d = 8 -> "8" [] d = 9 -> "9"

DigitTokens == {Digit(d) : d \in 0..9}

DigitValue(token) == CHOOSE d \in 0..9 : Digit(d) = token

\* the decimal digits of a natural number
RECURSIVE NumberTokens(_)
NumberTokens(n) ==
  IF n < 10 THEN <<Digit(n)>>
  ELSE Append(NumberTokens(n \div 10), Digit(n % 10))

Quote(key) == "\"" \o key \o "\""

\* "key":value of the enumerable own properties, separated by commas
RECURSIVE MemberTokens(_, _)
MemberTokens(props, first) ==
  IF props = <<>> THEN <<>>
  ELSE IF ~props[1].enumerable THEN MemberTokens(Tail(props), first)
  ELSE (IF first THEN <<>> ELSE <<",">>)
         \o <<Quote(props[1].key), ":">> \o NumberTokens(props[1].value)
         \o MemberTokens(Tail(props), FALSE)

JSON_stringify(obj) == <<"{">> \o MemberTokens(obj.own, TRUE) \o <<"}">>

\* reads the digits at the head of tokens: the number and what follows it
RECURSIVE ParseNumber(_, _)
ParseNumber(tokens, acc) ==
  IF tokens # <<>> /\ tokens[1] \in DigitTokens
  THEN ParseNumber(Tail(tokens), acc * 10 + DigitValue(tokens[1]))
  ELSE [value |-> acc, rest |-> tokens]

\* a repeated key keeps its place and takes the later value
DefineProperty(props, key, value) ==
  IF \E i \in 1..Len(props) : props[i].key = key
  THEN [i \in 1..Len(props) |->
          IF props[i].key = key THEN Property(key, value) ELSE props[i]]
  ELSE Append(props, Property(key, value))

\* reads the members after "{" or ","; ok is FALSE on a syntax error
RECURSIVE ParseMembers(_, _)
ParseMembers(tokens, props) ==
  IF Len(tokens) < 4 \/ ~(\E k \in Keys : Quote(k) = tokens[1])
       \/ tokens[2] # ":" \/ tokens[3] \notin DigitTokens
  THEN [ok |-> FALSE, own |-> props]
  ELSE LET key == CHOOSE k \in Keys : Quote(k) = tokens[1]
           number == ParseNumber(SubSeq(tokens, 3, Len(tokens)), 0)
           defined == DefineProperty(props, key, number.value)
       IN IF number.rest = <<"}">> THEN [ok |-> TRUE, own |-> defined]
          ELSE IF number.rest # <<>> /\ number.rest[1] = ","
          THEN ParseMembers(Tail(number.rest), defined)
          ELSE [ok |-> FALSE, own |-> defined]

\* JSON.parse of an object text: a plain object, or a SyntaxError
JSON_parse(ref, text) ==
  LET members ==
        IF text = <<"{", "}">> THEN [ok |-> TRUE, own |-> <<>>]
        ELSE IF text # <<>> /\ text[1] = "{"
        THEN ParseMembers(Tail(text), <<>>)
        ELSE [ok |-> FALSE, own |-> <<>>]
  IN [ok |-> members.ok, ref |-> ref, proto |-> ObjectPrototype,
      own |-> members.own]

getOwnPropertyDescriptors(obj) == obj.own

Object_create(ref, proto, descriptors) ==
  [ref |-> ref, proto |-> proto, own |-> descriptors]

getJSON(obj) == JSON_stringify(obj)

\* returns the parsed object as it is
fromJSON_plain(ref, proto, json) ==
  LET parsed == JSON_parse(ref, json)
  IN [ok |-> parsed.ok,
      object |-> [ref |-> parsed.ref, proto |-> parsed.proto,
                  own |-> parsed.own]]

\* the parsed object is object `ref`, the created one object ref + 1
fromJSON(ref, proto, json) ==
  LET parsed == JSON_parse(ref, json)
  IN [ok |-> parsed.ok,
      object |-> Object_create(ref + 1, proto,
                               getOwnPropertyDescriptors(parsed))]

\* ------------------------------------------------------------ the machine
Live == 1..count

\* the arguments of a call: value for the six part methods; the two
\* selectors and the combinator for combine
Value(value) ==
  [value |-> value, selector1 |-> 0, combinator |-> "", selector2 |-> 0]
Operands(selector1, combinator, selector2) ==
  [value |-> "", selector1 |-> selector1, combinator |-> combinator,
   selector2 |-> selector2]
NoArgs == Value("")

NoCall ==
  [op |-> "none", facade |-> FALSE, this |-> 0, args |-> NoArgs,
   error |-> NoError, ret |-> 0, text |-> ""]

NoObject == [ref |-> 0, proto |-> "none", own |-> <<>>]

\* no call of Rectangle, getJSON or fromJSON made
NoJs ==
  [pc |-> "idle", value |-> NoObject, text |-> <<>>, object |-> NoObject,
   area |-> -1]

Init ==
  /\ selectors = [b \in Builders |-> <<>>]
  /\ count = 0
  /\ last = NoCall
  /\ log = [b \in Builders |-> <<>>]
  /\ js = NoJs

RECURSIVE Parts(_, _)
Parts(heap, n) == IF n = 0 THEN 0 ELSE Len(heap[n]) + Parts(heap, n - 1)

\* exploration stops where a call would leave more parts than the bounds
\* allow, or a part longer than MaxText
WithinBounds(heap, n) ==
  /\ Parts(heap, n) <= (IF n = 1 THEN MaxChain ELSE MaxParts)
  /\ \A b \in 1..n : \A i \in 1..Len(heap[b]) :
       Len(heap[b][i].value) <= MaxText

\* what the log keeps of a call that returned: the method, the value it was
\* given and, for combine, what the two operands rendered to at the call
Entry(op, args) ==
  [op |-> op, value |-> args.value,
   left |-> IF op = "combine" THEN join(selectors[args.selector1]) ELSE "",
   combinator |-> args.combinator,
   right |-> IF op = "combine" THEN join(selectors[args.selector2]) ELSE ""]

\* the call `op` was made (by the facade, or on instance `this`) with
\* `args`, and ended in `outcome`
Record(op, facade, this, args, outcome) ==
  /\ WithinBounds(outcome.heap, IF facade THEN count + 1 ELSE count)
  /\ selectors' = outcome.heap
  /\ last' = [op |-> op, facade |-> facade, this |-> this, args |-> args,
              error |-> outcome.error, ret |-> outcome.ret,
              text |-> outcome.text]
  /\ log' = IF outcome.error = NoError /\ op # "stringify"
            THEN [log EXCEPT ![outcome.this] = Append(@, Entry(op, args))]
            ELSE log
  /\ count' = IF facade THEN count + 1 ELSE count
  /\ UNCHANGED js

\* a method call on an instance some caller already holds
CallElement(this, value) ==
  /\ this \in Live
  /\ Record("element", FALSE, this, Value(value),
            element(selectors, this, value))

CallId(this, value) ==
  /\ this \in Live
  /\ Record("id", FALSE, this, Value(value), id(selectors, this, value))

CallClass(this, value) ==
  /\ this \in Live
  /\ Record("class", FALSE, this, Value(value),
            class(selectors, this, value))

CallAttr(this, value) ==
  /\ this \in Live
  /\ Record("attr", FALSE, this, Value(value), attr(selectors, this, value))

CallPseudoClass(this, value) ==
  /\ this \in Live
  /\ Record("pseudoClass", FALSE, this, Value(value),
            pseudoClass(selectors, this, value))

CallPseudoElement(this, value) ==
  /\ this \in Live
  /\ Record("pseudoElement", FALSE, this, Value(value),
            pseudoElement(selectors, this, value))

CallCombine(this, selector1, combinator, selector2) ==
  /\ this \in Live /\ selector1 \in Live /\ selector2 \in Live
  /\ Record("combine", FALSE, this,
            Operands(selector1, combinator, selector2),
            combine(selectors, this, selector1, combinator, selector2))

CallStringify(this) ==
  /\ this \in Live
  /\ Record("stringify", FALSE, this, NoArgs, stringify(selectors, this))

\* a call of the facade
FacadeElement(value) ==
  /\ count < MaxBuilders
  /\ Record("element", TRUE, 0, Value(value),
            cssSelectorBuilder_element(selectors, count, value))

FacadeId(value) ==
  /\ count < MaxBuilders
  /\ Record("id", TRUE, 0, Value(value),
            cssSelectorBuilder_id(selectors, count, value))

FacadeClass(value) ==
  /\ count < MaxBuilders
  /\ Record("class", TRUE, 0, Value(value),
            cssSelectorBuilder_class(selectors, count, value))

FacadeAttr(value) ==
  /\ count < MaxBuilders
  /\ Record("attr", TRUE, 0, Value(value),
            cssSelectorBuilder_attr(selectors, count, value))

FacadePseudoClass(value) ==
  /\ count < MaxBuilders
  /\ Record("pseudoClass", TRUE, 0, Value(value),
            cssSelectorBuilder_pseudoClass(selectors, count, value))

FacadePseudoElement(value) ==
  /\ count < MaxBuilders
  /\ Record("pseudoElement", TRUE, 0, Value(value),
            cssSelectorBuilder_pseudoElement(selectors, count, value))

FacadeCombine(selector1, combinator, selector2) ==
  /\ count < MaxBuilders
  /\ selector1 \in Live /\ selector2 \in Live
  /\ Record("combine", TRUE, 0, Operands(selector1, combinator, selector2),
            cssSelectorBuilder_combine(selectors, count, selector1,
                                       combinator, selector2))

Next ==
  \/ \E this \in Builders, value \in Values : CallElement(this, value)
  \/ \E this \in Builders, value \in Values : CallId(this, value)
  \/ \E this \in Builders, value \in Values : CallClass(this, value)
  \/ \E this \in Builders, value \in Values : CallAttr(this, value)
  \/ \E this \in Builders, value \in Values : CallPseudoClass(this, value)
  \/ \E this \in Builders, value \in Values : CallPseudoElement(this, value)
  \/ \E this, selector1, selector2 \in Builders, combinator \in Combinators :
       CallCombine(this, selector1, combinator, selector2)
  \/ \E this \in Builders : CallStringify(this)
  \/ \E value \in Values : FacadeElement(value)
  \/ \E value \in Values : FacadeId(value)
  \/ \E value \in Values : FacadeClass(value)
  \/ \E value \in Values : FacadeAttr(value)
  \/ \E value \in Values : FacadePseudoClass(value)
  \/ \E value \in Values : FacadePseudoElement(value)
  \/ \E selector1, selector2 \in Builders, combinator \in Combinators :
       FacadeCombine(selector1, combinator, selector2)

Spec == Init /\ [][Next]_vars

\* ---------------------------------------- a caller of getJSON and fromJSON
Sides == 0..MaxSide

\* the objects the caller starts from: the two object literals and
\* new Rectangle(width, height)
Inputs ==
  {[ref |-> 1, proto |-> ObjectPrototype,
    own |-> <<Property("height", h), Property("width", w)>>] :
     h \in Sides, w \in Sides}
  \cup {[ref |-> 1, proto |-> ObjectPrototype,
         own |-> <<Property("width", w), Property("height", h)>>] :
          h \in Sides, w \in Sides}
  \cup {Rectangle(1, w, h) : h \in Sides, w \in Sides}

InitJSON ==
  /\ selectors = [b \in Builders |-> <<>>]
  /\ count = 0
  /\ last = NoCall
  /\ log = [b \in Builders |-> <<>>]
  /\ \E value \in Inputs : js = [NoJs EXCEPT !.pc = "start", !.value = value]

CallGetJSON ==
  /\ js.pc = "start"
  /\ js' = [js EXCEPT !.pc = "serialized", !.text = getJSON(js.value)]
  /\ UNCHANGED <<selectors, count, last, log>>

\* fromJSON(Rectangle.prototype, json); a SyntaxError ends the caller
CallFromJSON ==
  /\ js.pc = "serialized"
  /\ LET result == fromJSON(js.value.ref + 1, RectanglePrototype, js.text)
     IN js' = IF result.ok
              THEN [js EXCEPT !.pc = "deserialized",
                              !.object = result.object]
              ELSE [js EXCEPT !.pc = "SyntaxError"]
  /\ UNCHANGED <<selectors, count, last, log>>

\* r.getArea() on the object read back; a TypeError when the prototype
\* chain has no getArea
CallGetArea ==
  /\ js.pc = "deserialized"
  /\ js' = IF js.object.proto = RectanglePrototype
           THEN [js EXCEPT !.pc = "done", !.area = getArea(js.object)]
           ELSE [js EXCEPT !.pc = "TypeError"]
  /\ UNCHANGED <<selectors, count, last, log>>

NextJSON ==
  \/ CallGetJSON
  \/ CallFromJSON
  \/ CallGetArea

SpecJSON == InitJSON /\ [][NextJSON]_vars

\* ------------------------------------------------------------ properties
\* the six part methods, and the three of them limited to one occurrence
PartKinds == {"element", "id", "class", "attr", "pseudoClass", "pseudoElement"}
LimitedKinds == {"element", "id", "pseudoElement"}

\* the kind-rank of a part kind
KindRank(kind) ==
  CASE kind = "element" -> 0
    [] kind = "id" -> 1
    [] kind = "class" -> 2
    [] kind = "attr" -> 3
    [] kind = "pseudoClass" -> 4
    [] kind = "pseudoElement" -> 5

\* the documented rendered form of a part
RenderedForm(kind, v) ==
  CASE kind = "element" -> v
    [] kind = "id" -> "#" \o v
    [] kind = "class" -> "." \o v
    [] kind = "attr" -> "[" \o v \o "]"
    [] kind = "pseudoClass" -> ":" \o v
    [] kind = "pseudoElement" -> "::" \o v

RECURSIVE RenderedForms(_)
RenderedForms(entries) ==
  IF entries = <<>> THEN ""
  ELSE RenderedForm(entries[1].op, entries[1].value)
         \o RenderedForms(Tail(entries))

\* a sequence of kinds: part kinds only, distinct, in kind-rank order
DistinctInOrder(kinds) ==
  /\ \A i \in 1..Len(kinds) : kinds[i] \in PartKinds
  /\ \A i, j \in 1..Len(kinds) :
       i < j => KindRank(kinds[i]) < KindRank(kinds[j])

Ops(entries) == [i \in 1..Len(entries) |-> entries[i].op]

\* the step is a call of method `op` on the existing instance `this`
Called(this, op) ==
  /\ count' = count
  /\ last'.this = this
  /\ last'.op = op

\* C1: a chain of part calls of distinct kinds in kind-rank order, begun at
\* the facade, never throws, and stringify() of the instance is the
\* rendered forms of the calls, concatenated in call order
C1_ChainRenders ==
  /\ \A b \in Live :
       DistinctInOrder(Ops(log[b]))
         => stringify(selectors, b).text = RenderedForms(log[b])
  /\ (last.facade /\ last.op \in PartKinds) => last.error = NoError
  /\ (last.this \in Live /\ last.op \in PartKinds /\ last.error # NoError)
       => ~DistinctInOrder(Append(Ops(log[last.this]), last.op))

C1_Witness ==
  /\ count = 1
  /\ Ops(log[1]) = <<"element", "id", "class", "attr", "pseudoClass",
                     "pseudoElement">>
  /\ last.op = "stringify"
  /\ last.text = "a#a.a[a]:a::a"

\* C2 as stated: a second element, id or pseudoElement on an instance that
\* holds one throws DuplicateSelector, whatever came in between
C2_AlwaysDuplicateSelector ==
  [][\A b \in Live : \A kind \in LimitedKinds :
       (Called(b, kind) /\ \E i \in 1..Len(selectors[b]) :
                             selectors[b][i].type = kind)
         => last'.error = DuplicateSelector]_vars

\* C2 amended: a second element, id or pseudoElement on an instance that
\* holds one always throws: OrderViolation when the last part has a higher
\* kind-rank than the call's kind, DuplicateSelector otherwise (the last
\* part has the same or a lower kind-rank, or is a combined part)
C2_SecondOccurrenceThrows ==
  [][\A b \in Live : \A kind \in LimitedKinds :
       (Called(b, kind) /\ \E i \in 1..Len(selectors[b]) :
                             selectors[b][i].type = kind)
         => LET prev == selectors[b][Len(selectors[b])]
            IN last'.error =
                 IF prev.type \in PartKinds
                      /\ KindRank(prev.type) > KindRank(kind)
                 THEN OrderViolation
                 ELSE DuplicateSelector]_vars

C2_Witness ==
  /\ last.op = "pseudoElement"
  /\ last.error = DuplicateSelector
  /\ last.this \in Live
  /\ Len(selectors[last.this]) = 3
  /\ selectors[last.this][1].type = "pseudoElement"
  /\ selectors[last.this][2].type = Undefined
  /\ selectors[last.this][3].type = "class"

\* C3: on an instance whose last part has a kind-rank, a part call throws
\* OrderViolation exactly when its kind-rank is lower than that of the last
\* part
C3_OrderViolationIffLower ==
  [][\A b \in Live : \A kind \in PartKinds :
       (Called(b, kind) /\ selectors[b] # <<>>
          /\ selectors[b][Len(selectors[b])].type \in PartKinds)
         => ((last'.error = OrderViolation)
               <=> KindRank(kind)
                     < KindRank(selectors[b][Len(selectors[b])].type))]_vars

C3_Witness ==
  /\ last.op = "element"
  /\ last.error = OrderViolation
  /\ last.this \in Live
  /\ selectors[last.this] # <<>>
  /\ selectors[last.this][Len(selectors[last.this])].type = "class"

\* C4: the instance facade combine(a, c, b) returns renders as
\* stringify(a), a space, c, a space, stringify(b), also when a or b was
\* itself made by combine
C4_CombineRenders ==
  (last.facade /\ last.op = "combine")
    => /\ last.error = NoError
       /\ last.ret \in Live
       /\ stringify(selectors, last.ret).text
            = stringify(selectors, last.args.selector1).text \o " "
                \o last.args.combinator \o " "
                \o stringify(selectors, last.args.selector2).text

\* a combine of an element with a combine of combines
C4_Witness ==
  /\ count = 3
  /\ last.facade /\ last.op = "combine"
  /\ last.args.selector1 = 1 /\ last.args.selector2 = 2
  /\ Ops(log[1]) = <<"element">>
  /\ Ops(log[2]) = <<"combine">>
  /\ stringify(selectors, 3).text = "a + a + a"

\* C5: a part call that throws leaves every array as it was
C5_FailedCallChangesNothing ==
  [][last'.error # NoError => selectors' = selectors]_vars

C5_Witness ==
  /\ last.op = "element"
  /\ last.error = DuplicateSelector
  /\ last.this \in Live
  /\ Len(selectors[last.this]) = 2

\* C6: no array ever holds two element parts, two id parts or two
\* pseudoElement parts
C6_AtMostOnce ==
  \A b \in Builders : \A kind \in LimitedKinds :
    Cardinality({i \in 1..Len(selectors[b]) : selectors[b][i].type = kind})
      <= 1

\* an element refused on an instance whose element is followed by a
\* combined part
C6_Witness ==
  /\ last.op = "element"
  /\ last.error = DuplicateSelector
  /\ last.this \in Live
  /\ Len(selectors[last.this]) = 2
  /\ selectors[last.this][1].type = "element"
  /\ selectors[last.this][2].type = Undefined

\* C7 as stated: in every array the parts that have a kind-rank are in
\* non-decreasing kind-rank order
C7_RankedPartsInOrder ==
  \A b \in Builders : \A i, j \in 1..Len(selectors[b]) :
    (i < j /\ selectors[b][i].type \in PartKinds
           /\ selectors[b][j].type \in PartKinds)
      => KindRank(selectors[b][i].type) <= KindRank(selectors[b][j].type)

\* C8: stringify() leaves every array as it was, and called again with no
\* other call in between it returns the same string
C8_StringifyReadOnly ==
  [][last'.op = "stringify"
       => /\ selectors' = selectors
          /\ last'.text = join(selectors[last'.this])
          /\ (last.op = "stringify" /\ last.this = last'.this)
               => last'.text = last.text]_vars

\* stringify() called on an instance of two parts
C8_Witness ==
  /\ last.op = "stringify"
  /\ last.this \in Live
  /\ Len(log[last.this]) = 2
  /\ last.text = "a.a"

\* C9: a facade call returns an instance that did not exist, holding one
\* part, and a call changes no array but that of its own instance
C9_FreshAndIndependent ==
  [][/\ count' # count
          => /\ last'.ret \in Builders \ Live
             /\ Len(selectors'[last'.ret]) = 1
             /\ \A b \in Live : selectors'[b] = selectors[b]
     /\ count' = count
          => \A b \in Live \ {last'.this} : selectors'[b] = selectors[b]]_vars

\* a second part appended to instance 1 after instance 2 was made
C9_Witness ==
  /\ count >= 2
  /\ ~last.facade /\ last.this = 1 /\ last.op \in PartKinds
  /\ last.error = NoError
  /\ Len(selectors[1]) = 2
  /\ Len(selectors[2]) = 1

\* C10: a part call or combine call that returns, returns the instance it
\* was called on, and that instance's array is one part longer
C10_ReturnsThis ==
  [][(count' = count /\ last'.op \in PartKinds \cup {"combine"}
        /\ last'.error = NoError)
       => /\ last'.ret = last'.this
          /\ Len(selectors'[last'.ret]) = Len(selectors[last'.this]) + 1]_vars

\* two calls chained on what the facade returned
C10_Witness ==
  /\ count = 1
  /\ ~last.facade /\ last.op = "class" /\ last.ret = 1
  /\ Ops(log[1]) = <<"element", "combine", "class">>
  /\ Len(selectors[1]) = 3

\* the own data fields of an object, as key-value pairs
Fields(obj) ==
  {<<obj.own[i].key, obj.own[i].value>> : i \in 1..Len(obj.own)}

UnlimitedKinds == {"class", "attr", "pseudoClass"}

HasKind(sels, kind) == \E i \in 1..Len(sels) : sels[i].type = kind

LastType(sels) == sels[Len(sels)].type

\* C12: an element, id or pseudoElement call that is both out of order and
\* a second occurrence throws OrderViolation, not DuplicateSelector
C12_OrderCheckedFirst ==
  [][\A b \in Live : \A kind \in LimitedKinds :
       (Called(b, kind) /\ HasKind(selectors[b], kind)
          /\ LastType(selectors[b]) \in PartKinds
          /\ KindRank(kind) < KindRank(LastType(selectors[b])))
         => last'.error = OrderViolation]_vars

\* element, id, then element again
C12_Witness ==
  /\ last.op = "element"
  /\ last.error = OrderViolation
  /\ last.this \in Live
  /\ Len(selectors[last.this]) = 2
  /\ selectors[last.this][1].type = "element"
  /\ selectors[last.this][2].type = "id"

\* C13: a class, attr or pseudoClass call never throws DuplicateSelector,
\* and on an instance whose last part has the same or a lower kind-rank it
\* returns, having appended one part, however many parts of its kind the
\* instance holds
C13_UnlimitedKinds ==
  [][\A b \in Live : \A kind \in UnlimitedKinds :
       (Called(b, kind) /\ selectors[b] # <<>>)
         => /\ last'.error # DuplicateSelector
            /\ (LastType(selectors[b]) \in PartKinds
                  /\ KindRank(LastType(selectors[b])) <= KindRank(kind))
                 => /\ last'.error = NoError
                    /\ selectors'[b]
                         = Append(selectors[b],
                                  [type |-> kind,
                                   value |-> RenderedForm(
                                               kind, last'.args.value)])]_vars

\* a third class in a row
C13_Witness ==
  /\ last.op = "class"
  /\ last.error = NoError
  /\ last.this \in Live
  /\ Ops(log[last.this]) = <<"id", "class", "class", "class">>
  /\ stringify(selectors, last.this).text = "#a.a.a.a"

\* C14: combine never throws, and appends one part without a type at the
\* end of the array, whatever the array holds
C14_CombineUnchecked ==
  [][last'.op = "combine"
       => /\ last'.error = NoError
          /\ last'.ret \in Builders
          /\ LET before == IF count' = count THEN selectors[last'.ret]
                           ELSE <<>>
                 after == selectors'[last'.ret]
             IN /\ Len(after) = Len(before) + 1
                /\ SubSeq(after, 1, Len(before)) = before
                /\ LastType(after) = Undefined]_vars

\* combine on an instance whose only part is a combined part
C14_Witness ==
  /\ last.op = "combine"
  /\ ~last.facade
  /\ last.this \in Live
  /\ Len(selectors[last.this]) = 2
  /\ selectors[last.this][1].type = Undefined
  /\ selectors[last.this][2].type = Undefined

\* what the logged calls rendered to when they were made
RECURSIVE RenderedAtCall(_)
RenderedAtCall(entries) ==
  IF entries = <<>> THEN ""
  ELSE (IF entries[1].op = "combine"
        THEN entries[1].left \o " " \o entries[1].combinator \o " "
               \o entries[1].right
        ELSE RenderedForm(entries[1].op, entries[1].value))
         \o RenderedAtCall(Tail(entries))

\* C15: an instance that combine was called on renders the two operands as
\* they were at the call, whatever was appended to them since
C15_RenderedAtCallTime ==
  \A b \in Live :
    (\E i \in 1..Len(log[b]) : log[b][i].op = "combine")
      => stringify(selectors, b).text = RenderedAtCall(log[b])

\* instance 2 is combine(1, "+", 1), and a class was appended to 1 since
C15_Witness ==
  /\ count = 2
  /\ Ops(log[1]) = <<"element", "class">>
  /\ Ops(log[2]) = <<"combine">>
  /\ last.op = "class" /\ last.this = 1 /\ last.error = NoError
  /\ stringify(selectors, 1).text = "a.a"
  /\ stringify(selectors, 2).text = "a + a"

\* C16: no step removes or rewrites a part, and a part call or combine call
\* that returns leaves the array one part longer, stringify() being what it
\* was followed by the text of the new part
C16_AppendOnly ==
  [][/\ \A b \in Builders :
          /\ Len(selectors[b]) <= Len(selectors'[b])
          /\ SubSeq(selectors'[b], 1, Len(selectors[b])) = selectors[b]
     /\ (count' = count /\ last'.op \in PartKinds \cup {"combine"}
           /\ last'.error = NoError)
          => LET b == last'.this
                 new == IF last'.op = "combine"
                        THEN join(selectors[last'.args.selector1]) \o " "
                               \o last'.args.combinator \o " "
                               \o join(selectors[last'.args.selector2])
                        ELSE RenderedForm(last'.op, last'.args.value)
             IN /\ Len(selectors'[b]) = Len(selectors[b]) + 1
                /\ join(selectors'[b]) = join(selectors[b]) \o new]_vars

\* a combine appended after a class
C16_Witness ==
  /\ last.op = "combine" /\ ~last.facade /\ last.error = NoError
  /\ last.this \in Live
  /\ Ops(log[last.this]) = <<"class", "combine">>
  /\ stringify(selectors, last.this).text = ".a.a + .a"

\* C17: after a combined part a part call never throws OrderViolation; it
\* throws DuplicateSelector when it is an element, id or pseudoElement the
\* array already holds, and returns otherwise
C17_NoOrderAfterCombined ==
  [][\A b \in Live : \A kind \in PartKinds :
       (Called(b, kind) /\ selectors[b] # <<>>
          /\ LastType(selectors[b]) = Undefined)
         => last'.error =
              IF kind \in LimitedKinds /\ HasKind(selectors[b], kind)
              THEN DuplicateSelector
              ELSE NoError]_vars

\* an element accepted after an id and a combined part
C17_Witness ==
  /\ last.op = "element" /\ last.error = NoError
  /\ last.this \in Live
  /\ Len(selectors[last.this]) = 3
  /\ selectors[last.this][1].type = "id"
  /\ selectors[last.this][2].type = Undefined
  /\ selectors[last.this][3].type = "element"

====
